---- MODULE Spec2Model ----
(***************************************************************************)
(* Asterisk WebSocket transport (agents/demo, transport.py).               *)
(*                                                                         *)
(* One transport object: the Inbound Session (AsteriskWSInputTransport),   *)
(* the Outbound Pacer (AsteriskWSOutputTransport) and the Connection       *)
(* Manager (AsteriskWSTransport._handle_connection).  The tasks are        *)
(* asyncio coroutines: an action is the code one task runs between two     *)
(* suspension points (await on the flow gate, the pacing sleep, the        *)
(* socket write).  Byte strings are modelled by their length and, for a    *)
(* wire chunk, by the slice of the encoded frame they carry.  Time is kept *)
(* as the time left to each pending deadline.  The transport holds ONE     *)
(* input and ONE output object (AsteriskWSTransport.__init__); every       *)
(* connection the server accepts runs its own _handle_connection on them.  *)
(***************************************************************************)
EXTENDS Integers, Sequences, FiniteSets, TLC

(* ------------------------------ bounds -------------------------------- *)
MaxFrames == 2     \* send_audio calls made by the pipeline
MaxFlush  == 2     \* flush() calls (StartInterruptionFrame)
MaxEvents == 3     \* wire frames that push a frame upward
MaxEnd    == 2     \* end() calls (EndFrame / CancelFrame)
MaxCodings == 4    \* encodings and decodings applied to one sample

(* ------------------------- program constants -------------------------- *)
PtimeMs            == 20
PipelineSampleRate == 16000
FlowTimeoutMs      == 5000
DefaultRate        == 8000
BytesPerSample     == 2
PadByte            == 0       \* b"\x00", the byte a short chunk is filled with

Absent == "<absent>"      \* dict.get() found no such key
NoneStr == "None"         \* Python None in a string-valued field

(* ------------------------------ helpers ------------------------------- *)
Max(a, b) == IF a > b THEN a ELSE b
Min(a, b) == IF a < b THEN a ELSE b

\* AsteriskWSInputTransport._get_sample_rate: rates.get(codec, 8000)
GetSampleRate(codec) ==
    CASE codec = "ulaw"   -> 8000
      [] codec = "alaw"   -> 8000
      [] codec = "slin"   -> 8000
      [] codec = "slin16" -> 16000
      [] codec = "slin12" -> 12000
      [] OTHER            -> DefaultRate

\* message.get("codec", "slin16") / message.get("channel", "unknown")
GetNoDefault(v, dflt) == v
GetOr(v, dflt) == IF v = Absent THEN dflt ELSE v

\* set_media_params: int(sample_rate * ptime_ms / 1000) * 2
SamplesPerChunk(rate) == (rate * PtimeMs) \div 1000
ChunkSizeInSamples(rate) == SamplesPerChunk(rate)
ChunkSizeFor(rate) == SamplesPerChunk(rate) * BytesPerSample

\* AudioResampler.resample: PCM16 length scales with the rate ratio
ResampleLen(n, inRate, outRate) == (((n \div 2) * outRate) \div inRate) * 2

\* _encode_audio: lin2ulaw/lin2alaw give one byte per 16-bit sample,
\* every other codec passes the PCM bytes through
EncodeLen(codec, n) ==
    IF codec \in {"ulaw", "alaw"} THEN n \div 2 ELSE n

\* _decode_audio: ulaw2lin/alaw2lin give two bytes per input byte
DecodeLenPassThrough(codec, n) == n
DecodeLen(codec, n) ==
    IF codec \in {"ulaw", "alaw"} THEN n * 2 ELSE n

(* --------------------------- Codec Transcoder ------------------------- *)
\* bit operations on non-negative integers
RECURSIVE BitXor(_, _)
BitXor(a, b) ==
    IF a = 0 THEN b
    ELSE IF b = 0 THEN a
    ELSE ((a + b) % 2) + 2 * BitXor(a \div 2, b \div 2)

Pow2(k) == 2 ^ k

\* the segment of a magnitude: the first k in 0..7 with v <= ends[k+1], else 8
Segment(v, ends) ==
    IF v > ends[8] THEN 8
    ELSE CHOOSE k \in 0..7 :
            /\ v <= ends[k + 1]
            /\ \A j \in 0..(k - 1) : v > ends[j + 1]

SegUEnd == <<63, 127, 255, 511, 1023, 2047, 4095, 8191>>
SegAEnd == <<31, 63, 127, 255, 511, 1023, 2047, 4095>>

\* audioop.lin2ulaw(data, 2) on one 16-bit sample (G.711 mu-law, 14 bits in)
Lin2UlawNoBias(x) ==
    LET v14  == x \div 4
        neg  == v14 < 0
        mag  == Min(IF neg THEN -v14 ELSE v14, 8159)
        seg  == Segment(mag, SegUEnd)
        uval == IF seg >= 8 THEN 127
                ELSE seg * 16 + ((mag \div Pow2(seg + 1)) % 16)
    IN  IF neg THEN 127 - uval ELSE 255 - uval
Lin2Ulaw(x) ==
    LET v14  == x \div 4
        neg  == v14 < 0
        mag  == Min(IF neg THEN -v14 ELSE v14, 8159) + 33
        seg  == Segment(mag, SegUEnd)
        uval == IF seg >= 8 THEN 127
                ELSE seg * 16 + ((mag \div Pow2(seg + 1)) % 16)
    IN  IF neg THEN 127 - uval ELSE 255 - uval

\* audioop.ulaw2lin(data, 2) on one byte
Ulaw2Lin(u) ==
    LET inv == 255 - u
        t   == (((inv % 16) * 8) + 132) * Pow2((inv % 128) \div 16)
    IN  IF inv >= 128 THEN 132 - t ELSE t - 132

\* audioop.lin2alaw(data, 2) on one 16-bit sample (G.711 A-law, 13 bits in)
Lin2Alaw(x) ==
    LET v13  == x \div 8
        neg  == v13 < 0
        mag  == IF neg THEN -v13 - 1 ELSE v13
        seg  == Segment(mag, SegAEnd)
        aval == IF seg >= 8 THEN 127
                ELSE seg * 16 + (IF seg < 2 THEN (mag \div 2) % 16
                                 ELSE (mag \div Pow2(seg)) % 16)
    IN  BitXor(aval, IF neg THEN 85 ELSE 213)

\* audioop.alaw2lin(data, 2) on one byte
Alaw2Lin(a) ==
    LET v   == BitXor(a, 85)
        seg == (v % 128) \div 16
        t   == (v % 16) * 16
        mag == CASE seg = 0 -> t + 8
                 [] seg = 1 -> t + 264
                 [] OTHER   -> (t + 264) * Pow2(seg - 1)
    IN  IF v >= 128 THEN mag ELSE -mag

\* _encode_audio / _decode_audio on one sample: only ulaw and alaw convert
EncodeSample(c, x) ==
    CASE c = "ulaw" -> Lin2Ulaw(x) [] c = "alaw" -> Lin2Alaw(x) [] OTHER -> x
DecodeSample(c, y) ==
    CASE c = "ulaw" -> Ulaw2Lin(y) [] c = "alaw" -> Alaw2Lin(y) [] OTHER -> y

(* ------------------------------- state -------------------------------- *)
\* the connections the server accepts: one _handle_connection each
Conns == {"A", "B"}

VARIABLES
    sock,               \* per connection: "new" | "open" | "closed"
    \* AsteriskWSOutputTransport fields
    websocket,          \* "none" or the connection whose socket is attached
    codec, sample_rate, resampler, chunk_size,
    flow_ready,         \* asyncio.Event _flow_ready
    flush_generation,
    paceLeft,           \* max(0, _next_send_time - time.monotonic()), ms
    sinceSend,          \* ms since the last websocket.send of a chunk returned,
                        \* counted up to ptime_ms
    \* the _send_audio coroutine in progress
    pc,                 \* "idle" | "flowwait" | "pace" | "sending"
    my_generation, audio_len, stride, off,
    waitLeft,           \* ms left of wait_for(..., timeout=5.0)
    woken,              \* _flow_ready was set while the coroutine waits
    \* AsteriskWSInputTransport fields
    in_codec, in_sample_rate, in_call_id, in_resampler, running,
    in_built,           \* AudioResampler objects the input has constructed
    out_built,          \* AudioResampler objects the output has constructed
    \* _handle_connection, per connection
    conn,               \* "none" | "loop", then how the loop ended:
                        \* "closed" (ConnectionClosed) | "error" (Exception)
    call_id,
    \* observations
    written,            \* the socket write made by the last step, if any
    calls,              \* number of send_audio calls so far
    sent,               \* MEDIA chunks written by the current call
    outcome,            \* how the current / last send_audio call ended
    ready0,             \* the flow gate when the current call started
    xonSince,           \* an XON arrived since the current call started
    flushCalls,         \* number of flush() calls so far
    emitted,            \* frames pushed upward by the input transport
    notified,           \* on_call_start / on_call_end notifications
    nEvents,
    recv,               \* the wire frame the last step took off a socket
    endCalls,           \* number of end() calls so far
    lastFlow,           \* per connection: the last of XOFF / XON taken off it
    probe,              \* one sample on its way through the Codec Transcoder
    event_handlers      \* _event_handlers: per event name, the handlers in
                        \* the order of their registration

pacerCfg  == <<codec, sample_rate, resampler, chunk_size, out_built>>
pacerVars == <<websocket, pacerCfg, flow_ready, flush_generation, paceLeft,
               sinceSend>>
frameVars == <<my_generation, audio_len, stride, calls, ready0, flushCalls>>
inVars    == <<in_codec, in_sample_rate, in_call_id, in_resampler, running,
               in_built>>
connVars  == <<conn, call_id, lastFlow>>
upVars    == <<emitted, notified, nEvents>>
vars == <<sock, pacerVars, pc, off, waitLeft, woken, frameVars, inVars,
          connVars, written, sent, outcome, xonSince, upVars, recv, endCalls,
          probe, event_handlers>>

\* self._websocket as the pacer sees it: absent, open or closed
Attached == IF websocket = "none" THEN "none" ELSE sock[websocket]

\* a write handed to the socket: an event of the wire protocol
WireRec(ev, fr, o, dataLen, padLen, g) ==
    [event |-> ev, frame |-> fr, off |-> o, len |-> dataLen, pad |-> padLen,
     my_gen |-> g, gen |-> flush_generation, ready |-> flow_ready,
     ok |-> (Attached = "open")]

NoWrite == [event |-> "none", frame |-> 0, off |-> 0, len |-> 0, pad |-> 0,
            my_gen |-> 0, gen |-> 0, ready |-> TRUE, ok |-> TRUE]

\* a parsed wire frame; Absent marks a key the JSON object does not have
Msg(ev, c, ch, md, n, dg) ==
    [event |-> ev, codec |-> c, channel |-> ch, media |-> md,
     mediaLen |-> n, digit |-> dg]

\* `async for message in websocket` on connection c gave a frame:
\* kind "json" (an object), "value" (JSON, not an object), "text" (a str
\* that is not JSON), "bytes" (bytes that decode as UTF-8 but are not JSON)
\* or "raw" (bytes that are not UTF-8)
Taken(c, k, m) == [conn |-> c, kind |-> k, msg |-> m]
NoRecv == Taken("none", "none", Msg(Absent, Absent, Absent, Absent, 0, Absent))

\* a step of the pipeline or the clock: no frame is taken off a socket
PipelineStep == recv' = NoRecv /\ UNCHANGED <<sock, probe, event_handlers>>

\* no sample is in the Codec Transcoder
NoProbe == [codec |-> "none", start |-> "none", at |-> "none", vals |-> <<>>]

\* __init__ of the three classes
InitTransport ==
    /\ sock = [c \in Conns |-> "new"]
    /\ websocket = "none"
    /\ codec = "slin16" /\ sample_rate = 16000 /\ resampler = FALSE
    /\ chunk_size = 0
    /\ flow_ready = TRUE
    /\ flush_generation = 0
    /\ paceLeft = 0 /\ sinceSend = PtimeMs
    /\ pc = "idle" /\ my_generation = 0 /\ audio_len = 0 /\ stride = 0
    /\ off = 0 /\ waitLeft = 0 /\ woken = FALSE
    /\ in_codec = "slin16" /\ in_sample_rate = 16000 /\ in_call_id = NoneStr
    /\ in_resampler = FALSE /\ running = FALSE
    /\ in_built = 0 /\ out_built = 0
    /\ conn = [c \in Conns |-> "none"]
    /\ call_id = [c \in Conns |-> NoneStr]
    /\ lastFlow = [c \in Conns |-> "none"]
    /\ written = NoWrite /\ calls = 0 /\ sent = 0 /\ outcome = "none"
    /\ ready0 = TRUE /\ xonSince = FALSE /\ flushCalls = 0
    /\ emitted = <<>> /\ notified = <<>> /\ nEvents = 0
    /\ recv = NoRecv /\ endCalls = 0

\* a registered handler: what it is and whether calling it raises
Handler(id, raises) == [id |-> id, raises |-> raises]

\* AsteriskBot.setup_transport registers one handler for each event
BotHandlers ==
    [on_call_start |-> <<Handler("h1", FALSE)>>,
     on_call_end   |-> <<Handler("h1", FALSE)>>]

Init == InitTransport /\ probe = NoProbe /\ event_handlers = BotHandlers

(* ------------------------- Outbound Pacer ----------------------------- *)
\* line 330: my_generation = self._flush_generation
CaptureStaleGeneration == my_generation
CaptureGeneration == flush_generation

\* line 345: my_generation != self._flush_generation
StaleNever(g) == FALSE
Stale(g) == g # flush_generation

\* line 350: not self._flow_ready.is_set()
GateNeverClosed == FALSE
GateClosed == ~flow_ready

\* lines 363-365: the slice of the encoded frame and its zero padding
SliceLen(o, n) == Min(chunk_size, n - o)
PadNone(dataLen) == 0
PadLen(dataLen) == IF dataLen < chunk_size THEN chunk_size - dataLen ELSE 0

\* line 343: range(0, len(audio_encoded), self._chunk_size) steps by the
\* chunk size it was built with
SkipOffset(o) == o + 2 * stride
NextOffset(o) == o + stride

\* line 305
NextGenerationIfSocket ==
    IF websocket = "none" THEN flush_generation ELSE flush_generation + 1
NextGeneration == flush_generation + 1

\* line 352: wait_for(..., timeout=5.0) gives up when the 5 s are over
WaitNeverExpires == FALSE
WaitExpired == waitLeft = 0

\* the coroutine's position after a step
Goto(p, o, w, wk, wr, sn, oc) ==
    /\ pc' = p /\ off' = o /\ waitLeft' = w /\ woken' = wk
    /\ written' = wr /\ sent' = sn /\ outcome' = oc

Return(o, sn, oc) == Goto("idle", o, 0, FALSE, NoWrite, sn, oc)

\* lines 362-377: prepare the chunk at offset o and call websocket.send
BeginWrite(o, n, g, fr, sn) ==
    LET dataLen == SliceLen(o, n)
        chunk   == WireRec("MEDIA", fr, o, dataLen, PadLen(dataLen), g)
    IN  IF Attached = "open"
        THEN Goto("sending", o, 0, FALSE, chunk, sn + 1, "running")
        ELSE Goto("idle", o, 0, FALSE, chunk, sn, "sendfail")

\* lines 357-360: real-time pacing; pl is _next_send_time - now
AfterGate(o, n, g, fr, sn, pl) ==
    IF pl > 0
    THEN Goto("pace", o, 0, FALSE, NoWrite, sn, "running")
    ELSE BeginWrite(o, n, g, fr, sn)

\* lines 343-355: loop test, generation check, flow gate
LoopTop(o, n, g, fr, sn, pl) ==
    IF o >= n
    THEN Return(o, sn, "done")
    ELSE IF Stale(g)
    THEN Return(o, sn, "stale")
    ELSE IF GateClosed
    THEN Goto("flowwait", o, FlowTimeoutMs, FALSE, NoWrite, sn, "running")
    ELSE AfterGate(o, n, g, fr, sn, pl)

\* _send_audio(frame), up to its first suspension; pcmLen = len(frame.audio)
SendAudio(pcmLen) ==
    /\ pc = "idle"
    /\ calls < MaxFrames
    /\ calls' = calls + 1
    /\ ready0' = flow_ready
    /\ xonSince' = FALSE
    /\ PipelineStep
    /\ UNCHANGED <<pacerVars, inVars, connVars, upVars, flushCalls, endCalls>>
    /\ IF websocket = "none"
       THEN /\ Return(off, 0, "nosocket")
            /\ UNCHANGED <<my_generation, audio_len, stride>>
       ELSE LET pcm == IF resampler
                       THEN ResampleLen(pcmLen, PipelineSampleRate, sample_rate)
                       ELSE pcmLen
                n   == EncodeLen(codec, pcm)
            IN  /\ my_generation' = CaptureGeneration
                /\ audio_len' = n
                /\ stride' = chunk_size
                /\ IF chunk_size = 0
                   THEN Return(0, 0, "raised")   \* range() step 0: ValueError
                   ELSE LoopTop(0, n, CaptureGeneration, calls + 1, 0, paceLeft)

\* wait_for(self._flow_ready.wait()) returned: the gate was set
FlowWake ==
    /\ pc = "flowwait" /\ woken
    /\ AfterGate(off, audio_len, my_generation, calls, sent, paceLeft)
    /\ PipelineStep
    /\ UNCHANGED <<pacerVars, frameVars, inVars, connVars, xonSince, upVars,
                   endCalls>>

\* asyncio.TimeoutError after 5 s
FlowTimeout ==
    /\ pc = "flowwait" /\ WaitExpired
    /\ Return(off, sent, "timeout")
    /\ PipelineStep
    /\ UNCHANGED <<pacerVars, frameVars, inVars, connVars, xonSince, upVars,
                   endCalls>>

\* asyncio.sleep(self._next_send_time - now) returned
PaceWake ==
    /\ pc = "pace" /\ paceLeft = 0
    /\ BeginWrite(off, audio_len, my_generation, calls, sent)
    /\ PipelineStep
    /\ UNCHANGED <<pacerVars, frameVars, inVars, connVars, xonSince, upVars,
                   endCalls>>

\* line 374: _next_send_time = time.monotonic() + _send_interval_sec, as
\* the time left until then
DeadlineKept(left) == left
DeadlineAfterSend(left) == PtimeMs

\* websocket.send returned: line 374, then the next loop iteration
SendDone ==
    /\ pc = "sending"
    /\ paceLeft' = DeadlineAfterSend(paceLeft)
    /\ sinceSend' = 0
    /\ LoopTop(NextOffset(off), audio_len, my_generation, calls, sent,
               DeadlineAfterSend(paceLeft))
    /\ PipelineStep
    /\ UNCHANGED <<websocket, pacerCfg, flow_ready, flush_generation,
                   frameVars, inVars, connVars, xonSince, upVars, endCalls>>

\* websocket.send raised (the socket closed during the write): lines 375-377
SendFailRetry ==
    /\ pc = "sending" /\ Attached = "closed"
    /\ BeginWrite(off, audio_len, my_generation, calls, sent)
    /\ PipelineStep
    /\ UNCHANGED <<pacerVars, frameVars, inVars, connVars, xonSince, upVars,
                   endCalls>>
SendFail ==
    /\ pc = "sending" /\ Attached = "closed"
    /\ Return(off, sent, "sendfail")
    /\ PipelineStep
    /\ UNCHANGED <<pacerVars, frameVars, inVars, connVars, xonSince, upVars,
                   endCalls>>

\* flush(): StartInterruptionFrame
Flush ==
    /\ flushCalls < MaxFlush
    /\ flushCalls' = flushCalls + 1
    /\ flush_generation' = NextGeneration
    /\ written' = IF websocket # "none"
                  THEN [WireRec("FLUSH_MEDIA", 0, 0, 0, 0, 0)
                        EXCEPT !.gen = flush_generation']
                  ELSE NoWrite
    /\ PipelineStep
    /\ UNCHANGED <<websocket, pacerCfg, flow_ready, paceLeft, sinceSend, pc, off,
                   waitLeft, woken, my_generation, audio_len, stride, calls,
                   ready0, inVars, connVars, sent, outcome, xonSince, upVars,
                   endCalls>>

\* _send_end(): EndFrame / CancelFrame
SendEnd ==
    /\ endCalls < MaxEnd
    /\ endCalls' = endCalls + 1
    /\ written' = IF websocket # "none"
                  THEN WireRec("MEDIA_END", 0, 0, 0, 0, 0)
                  ELSE NoWrite
    /\ PipelineStep
    /\ UNCHANGED <<pacerVars, pc, off, waitLeft, woken, frameVars, inVars,
                   connVars, sent, outcome, xonSince, upVars>>

\* time passes, d ms, up to the end of a pending timer
TickSteps ==
    {d \in {paceLeft, waitLeft} :
        /\ d > 0
        /\ (d = paceLeft \/ (d = waitLeft /\ pc = "flowwait"))}

Tick ==
    /\ \E d \in TickSteps :
          /\ paceLeft' = Max(0, paceLeft - d)
          /\ sinceSend' = Min(PtimeMs, sinceSend + d)
          /\ waitLeft' = IF pc = "flowwait" THEN Max(0, waitLeft - d)
                         ELSE waitLeft
    /\ written' = NoWrite
    /\ PipelineStep
    /\ UNCHANGED <<websocket, pacerCfg, flow_ready, flush_generation, pc, off,
                   woken, frameVars, inVars, connVars, sent, outcome,
                   xonSince, upVars, endCalls>>

(* ------------------ Inbound Session, Connection Manager --------------- *)
\* a frame pushed upward (push_frame)
Frame(t, cid, c, r, n, dg) ==
    [type |-> t, call_id |-> cid, codec |-> c, sample_rate |-> r,
     num_channels |-> IF t = "Audio" THEN 1 ELSE 0, len |-> n, digit |-> dg]

CallStartFrame(cid, c, r) == Frame("CallStart", cid, c, r, 0, "")
HangupFrame(cid)          == Frame("Hangup", cid, "", 0, 0, "")
EndFrame                  == Frame("End", NoneStr, "", 0, 0, "")
DTMFFrame(dg, cid)        == Frame("Dtmf", cid, "", 0, 0, dg)
AudioRawFrame(n)          == Frame("Audio", NoneStr, "", PipelineSampleRate, n, "")
CancelFrame               == Frame("Cancel", NoneStr, "", 0, 0, "")

\* _trigger_event: the handlers it calls, in order; an exception of a
\* handler is caught and logged inside the loop
RunHandlersUntilRaise(hs) ==
    LET bad == {i \in 1..Len(hs) : hs[i].raises}
    IN  IF bad = {} THEN hs
        ELSE SubSeq(hs, 1, CHOOSE i \in bad : \A j \in bad : i <= j)
RunHandlers(hs) == [i \in 1..Len(hs) |-> hs[i]]

\* _trigger_event(kind, self, cid), fired when `at` frames had gone upward;
\* cfg is what a handler finds configured on the transport when it runs,
\* ran the handlers that were called
Notice(kind, cid) ==
    [kind |-> kind, call_id |-> cid, at |-> Len(emitted),
     cfg |-> <<in_codec, in_sample_rate, codec, sample_rate, chunk_size>>,
     ran |-> RunHandlers(event_handlers[kind])]

\* line 489: on_call_start is fired after both set_media_params (486-487)
StartNoticeEarly(cid) == Notice("on_call_start", cid)
StartNotice(cid) ==
    [Notice("on_call_start", cid) EXCEPT
        !.cfg = <<in_codec', in_sample_rate', codec', sample_rate',
                  chunk_size'>>]

Truthy(str) == str \notin {NoneStr, Absent, ""}

\* AsteriskWSInputTransport.set_media_params
InSetMediaParams(c, r, cid) ==
    /\ in_codec' = c /\ in_sample_rate' = r /\ in_call_id' = cid
    /\ in_resampler' = (r # PipelineSampleRate)
    /\ in_built' = IF r # PipelineSampleRate THEN in_built + 1 ELSE in_built
    /\ running' = TRUE

\* AsteriskWSOutputTransport.set_media_params
OutSetMediaParams(c, r) ==
    /\ codec' = c /\ sample_rate' = r
    /\ chunk_size' = ChunkSizeFor(r)
    /\ resampler' = (PipelineSampleRate # r)
    /\ out_built' = IF PipelineSampleRate # r THEN out_built + 1 ELSE out_built

\* _handle_audio: the frames it pushes
HandleAudio(m) ==
    IF m.media \in {Absent, ""}
    THEN <<>>
    ELSE LET pcm == DecodeLen(in_codec, m.mediaLen)
         IN  <<AudioRawFrame(IF in_resampler
                             THEN ResampleLen(pcm, in_sample_rate,
                                              PipelineSampleRate)
                             ELSE pcm)>>

\* base64.b64decode raises on a payload that is not base64
HandleRaises(m) == m.event = "MEDIA" /\ m.media = "bad"

\* handle_message on a DTMF event: the frames it pushes
DtmfFramesAlways(m) == <<DTMFFrame(GetOr(m.digit, ""), in_call_id)>>
DtmfFrames(m) ==
    IF Truthy(GetOr(m.digit, ""))
    THEN <<DTMFFrame(m.digit, in_call_id)>>
    ELSE <<>>

\* handle_message(message)
HandleMessage(m) ==
    CASE m.event = "MEDIA_START" ->
            LET c   == GetOr(m.codec, "slin16")
                r   == GetSampleRate(c)
                cid == GetOr(m.channel, "unknown")
            IN  /\ InSetMediaParams(c, r, cid)
                /\ emitted' = Append(emitted, CallStartFrame(cid, c, r))
      [] m.event = "MEDIA" ->
            /\ emitted' = emitted \o HandleAudio(m)
            /\ UNCHANGED inVars
      [] m.event = "DTMF" ->
            /\ emitted' = emitted \o DtmfFrames(m)
            /\ UNCHANGED inVars
      [] m.event = "MEDIA_END" ->
            /\ running' = FALSE
            /\ emitted' = emitted \o <<HangupFrame(in_call_id), EndFrame>>
            /\ UNCHANGED <<in_codec, in_sample_rate, in_call_id, in_resampler,
                           in_built>>
      [] OTHER ->
            UNCHANGED <<emitted, inVars>>

\* the server accepts connection c: _handle_connection up to the receive loop
Connect(c) ==
    /\ conn[c] = "none"
    /\ sock' = [sock EXCEPT ![c] = "open"]
    /\ websocket' = c
    /\ conn' = [conn EXCEPT ![c] = "loop"]
    /\ call_id' = [call_id EXCEPT ![c] = NoneStr]
    /\ written' = NoWrite /\ recv' = NoRecv
    /\ UNCHANGED <<pacerCfg, flow_ready, flush_generation, paceLeft, sinceSend, pc, off,
                   waitLeft, woken, frameVars, inVars, lastFlow, sent, outcome,
                   xonSince, upVars, endCalls, probe, event_handlers>>

\* the peer or the network closes the socket of connection c
NetClose(c) ==
    /\ sock[c] = "open"
    /\ sock' = [sock EXCEPT ![c] = "closed"]
    /\ written' = NoWrite /\ recv' = NoRecv
    /\ UNCHANGED <<websocket, pacerCfg, flow_ready, flush_generation, paceLeft, sinceSend,
                   pc, off, waitLeft, woken, frameVars, inVars, connVars, sent,
                   outcome, xonSince, upVars, endCalls, probe, event_handlers>>

\* async for message in websocket: the next frame of the open socket
Receiving(c) == conn[c] = "loop" /\ sock[c] = "open"

\* a frame whose handling pushes frames upward
Logged == nEvents < MaxEvents /\ nEvents' = nEvents + 1

\* the finally block, lines 515-519: on_call_end before Hangup and End
EndNoticesAlways(cid) == <<Notice("on_call_end", cid)>>
EndNotices(cid) ==
    IF Truthy(cid) THEN <<Notice("on_call_end", cid)>> ELSE <<>>

\* the except clause taken (how) and the finally block, lines 511-519
Finally(c, how) ==
    /\ conn' = [conn EXCEPT ![c] = how]
    /\ notified' = notified \o EndNotices(call_id[c])
    /\ emitted' = emitted \o <<HangupFrame(call_id[c]), EndFrame>>

\* lines 481-492
RecvMediaStart(c, m) ==
    /\ Receiving(c) /\ Logged
    /\ m.event = "MEDIA_START"
    /\ LET cd  == GetOr(m.codec, "slin16")
           r   == GetSampleRate(cd)
           cid == GetOr(m.channel, "unknown")
       IN  /\ call_id' = [call_id EXCEPT ![c] = cid]
           /\ InSetMediaParams(cd, r, cid)
           /\ OutSetMediaParams(cd, r)
           /\ notified' = Append(notified, StartNotice(cid))
           /\ emitted' = Append(emitted, CallStartFrame(cid, cd, r))
    /\ written' = NoWrite /\ recv' = Taken(c, "json", m)
    /\ UNCHANGED <<sock, websocket, flow_ready, flush_generation, paceLeft, sinceSend, pc,
                   off, waitLeft, woken, frameVars, conn, sent, outcome,
                   xonSince, endCalls, lastFlow, probe, event_handlers>>

\* set_flow_control(paused)
SetFlowControlInverted(paused) ==
    /\ flow_ready' = paused
    /\ woken' = IF paused /\ pc = "flowwait" THEN TRUE ELSE woken
SetFlowControl(paused) ==
    /\ flow_ready' = ~paused
    /\ woken' = IF ~paused /\ pc = "flowwait" THEN TRUE ELSE woken

XoffMsg == Msg("XOFF", Absent, Absent, Absent, 0, Absent)
XonMsg  == Msg("XON", Absent, Absent, Absent, 0, Absent)

\* lines 494-498
RecvXoff(c) ==
    /\ Receiving(c)
    /\ SetFlowControl(TRUE)
    /\ lastFlow' = [lastFlow EXCEPT ![c] = "XOFF"]
    /\ written' = NoWrite /\ recv' = Taken(c, "json", XoffMsg)
    /\ UNCHANGED <<sock, websocket, pacerCfg, flush_generation, paceLeft, sinceSend, pc,
                   off, waitLeft, frameVars, inVars, conn, call_id, sent, outcome,
                   xonSince, upVars, endCalls, probe, event_handlers>>

RecvXon(c) ==
    /\ Receiving(c)
    /\ SetFlowControl(FALSE)
    /\ xonSince' = TRUE
    /\ lastFlow' = [lastFlow EXCEPT ![c] = "XON"]
    /\ written' = NoWrite /\ recv' = Taken(c, "json", XonMsg)
    /\ UNCHANGED <<sock, websocket, pacerCfg, flush_generation, paceLeft, sinceSend, pc,
                   off, waitLeft, frameVars, inVars, conn, call_id, sent, outcome,
                   upVars, endCalls, probe, event_handlers>>

\* lines 500-501 and 513-519: any other JSON object
RecvInput(c, m) ==
    /\ Receiving(c) /\ Logged
    /\ m.event \notin {"MEDIA_START", "XOFF", "XON"}
    /\ IF HandleRaises(m)
       THEN Finally(c, "error") /\ UNCHANGED <<inVars, call_id, lastFlow>>
       ELSE HandleMessage(m) /\ UNCHANGED <<connVars, notified>>
    /\ written' = NoWrite /\ recv' = Taken(c, "json", m)
    /\ UNCHANGED <<sock, pacerVars, pc, off, waitLeft, woken, frameVars, sent,
                   outcome, xonSince, endCalls, probe, event_handlers>>

\* lines 478-479 and 513-519: JSON that is not an object (a number, a list):
\* data.get raises AttributeError
RecvValue(c) ==
    /\ Receiving(c) /\ Logged
    /\ Finally(c, "error")
    /\ written' = NoWrite
    /\ recv' = Taken(c, "value", Msg(Absent, Absent, Absent, Absent, 0, Absent))
    /\ UNCHANGED <<sock, pacerVars, pc, off, waitLeft, woken, frameVars, inVars,
                   call_id, lastFlow, sent, outcome, xonSince, endCalls,
                   probe, event_handlers>>

\* lines 478 and 503-509 on a frame that is not JSON: json.loads raises
\* JSONDecodeError on a str and on UTF-8 bytes, UnicodeDecodeError (not
\* caught at 503) on other bytes; base64.b64encode raises TypeError on a str
FallbackNeverRaises(k) == FALSE
FallbackRaises(k) == k \in {"text", "raw"}

\* the message that the fallback builds from n raw bytes
FallbackMsg(n) ==
    Msg("MEDIA", Absent, Absent, IF n = 0 THEN "" ELSE "b64", n, Absent)

\* lines 503-509: a frame of n bytes that is not JSON
RecvBinary(c, k, n) ==
    /\ Receiving(c) /\ Logged
    /\ IF FallbackRaises(k)
       THEN Finally(c, "error") /\ UNCHANGED <<inVars, call_id, lastFlow>>
       ELSE HandleMessage(FallbackMsg(n)) /\ UNCHANGED <<connVars, notified>>
    /\ written' = NoWrite /\ recv' = Taken(c, k, FallbackMsg(n))
    /\ UNCHANGED <<sock, pacerVars, pc, off, waitLeft, woken, frameVars, sent,
                   outcome, xonSince, endCalls, probe, event_handlers>>

\* lines 511-519: the socket closed, the loop ends
RecvExit(c) ==
    /\ conn[c] = "loop" /\ sock[c] = "closed"
    /\ Finally(c, "closed")
    /\ written' = NoWrite /\ recv' = NoRecv
    /\ UNCHANGED <<sock, pacerVars, pc, off, waitLeft, woken, frameVars, inVars,
                   call_id, lastFlow, sent, outcome, xonSince, nEvents,
                   endCalls, probe, event_handlers>>

\* AsteriskWSInputTransport.process_frame on a CancelFrame of the pipeline
Cancel ==
    /\ Logged
    /\ running' = FALSE
    /\ emitted' = Append(emitted, CancelFrame)
    /\ written' = NoWrite
    /\ PipelineStep
    /\ UNCHANGED <<pacerVars, pc, off, waitLeft, woken, frameVars, in_codec,
                   in_sample_rate, in_call_id, in_resampler, in_built,
                   connVars, sent, outcome, xonSince, notified, endCalls>>

(* ---------------------- Codec Transcoder steps ------------------------ *)
\* _encode_audio on the one sample in the transcoder
EncodeProbe ==
    /\ probe.at = "pcm" /\ Len(probe.vals) <= MaxCodings
    /\ probe' = [probe EXCEPT
           !.at = "wire",
           !.vals = Append(@, EncodeSample(probe.codec, @[Len(@)]))]
    /\ written' = NoWrite /\ recv' = NoRecv
    /\ UNCHANGED <<sock, pacerVars, pc, off, waitLeft, woken, frameVars,
                   inVars, connVars, sent, outcome, xonSince, upVars,
                   endCalls, event_handlers>>

\* _decode_audio on the one sample in the transcoder
DecodeProbe ==
    /\ probe.at = "wire" /\ Len(probe.vals) <= MaxCodings
    /\ probe' = [probe EXCEPT
           !.at = "pcm",
           !.vals = Append(@, DecodeSample(probe.codec, @[Len(@)]))]
    /\ written' = NoWrite /\ recv' = NoRecv
    /\ UNCHANGED <<sock, pacerVars, pc, off, waitLeft, woken, frameVars,
                   inVars, connVars, sent, outcome, xonSince, upVars,
                   endCalls, event_handlers>>

(* --------------------------- specifications --------------------------- *)
PcmLens == {0, 1000, 1920}         \* len(frame.audio), bytes
PacerCodecs == {"slin16", "ulaw"}
PacerMsgs ==
    {Msg("MEDIA_START", c, "C1", Absent, 0, Absent) : c \in PacerCodecs}

\* the pacer with its three writers: the pipeline (send_audio, flush),
\* the receive loop (MEDIA_START, XOFF, XON) and the clock
Next ==
    \/ \E n \in PcmLens : SendAudio(n)
    \/ FlowWake
    \/ FlowTimeout
    \/ PaceWake
    \/ SendDone
    \/ SendFail
    \/ Flush
    \/ Tick
    \/ Connect("A")
    \/ NetClose("A")
    \/ \E m \in PacerMsgs : RecvMediaStart("A", m)
    \/ RecvXoff("A")
    \/ RecvXon("A")

Spec == Init /\ [][Next]_vars

\* the asyncio loop runs every ready coroutine and the clock advances
SenderStep == FlowWake \/ FlowTimeout \/ PaceWake \/ SendDone \/ SendFail
FairPcmLens == {0, 1000}           \* an empty frame, a frame of two chunks
FairNext ==
    \/ \E n \in FairPcmLens : SendAudio(n)
    \/ FlowWake
    \/ FlowTimeout
    \/ PaceWake
    \/ SendDone
    \/ SendFail
    \/ Flush
    \/ Tick
    \/ Connect("A")
    \/ NetClose("A")
    \/ \E m \in PacerMsgs : RecvMediaStart("A", m)
    \/ RecvXoff("A")
    \/ RecvXon("A")

FairSpec ==
    Init /\ [][FairNext]_vars /\ WF_vars(SenderStep) /\ WF_vars(Tick)

\* the pacer as above, and the pipeline ending the stream (end())
EndNext ==
    \/ Next
    \/ SendEnd

EndSpec == Init /\ [][EndNext]_vars

\* the receive loop alone: every wire frame the switch may send
Codecs   == {Absent, "ulaw", "alaw", "slin", "slin16", "slin12", "g722"}
Channels == {Absent, "", "C1"}
ConnMsgs ==
    {Msg("MEDIA_START", c, ch, Absent, 0, Absent) : c \in Codecs, ch \in Channels}
InputMsgs ==
    {Msg("MEDIA", Absent, Absent, md, 160, Absent) : md \in {Absent, "", "b64", "bad"}}
    \cup {Msg("DTMF", Absent, Absent, Absent, 0, dg) : dg \in {Absent, "", "5"}}
    \cup {Msg(ev, Absent, Absent, Absent, 0, Absent) :
             ev \in {"MEDIA_END", "PING", Absent}}
\* frames that are not JSON: text, UTF-8 bytes (also none), other bytes
BinaryFrames == {<<"text", 5>>, <<"bytes", 0>>, <<"bytes", 160>>, <<"raw", 160>>}

ConnNext ==
    \/ Connect("A")
    \/ NetClose("A")
    \/ \E m \in ConnMsgs : RecvMediaStart("A", m)
    \/ RecvXoff("A")
    \/ RecvXon("A")
    \/ \E m \in InputMsgs : RecvInput("A", m)
    \/ RecvValue("A")
    \/ \E f \in BinaryFrames : RecvBinary("A", f[1], f[2])
    \/ RecvExit("A")

ConnSpec == Init /\ [][ConnNext]_vars

\* one connection and the pipeline that cancels the session
SessionNext == ConnNext \/ Cancel

SessionSpec == Init /\ [][SessionNext]_vars

\* the server with the connections it accepts, one after or beside the
\* other, on the one input and the one output object
ServerMsgs ==
    {Msg("MEDIA_START", "ulaw", ch, Absent, 0, Absent) : ch \in {"C1", "C2"}}

ServerNext ==
    \/ \E c \in Conns : Connect(c)
    \/ \E c \in Conns : NetClose(c)
    \/ \E c \in Conns : \E m \in ServerMsgs : RecvMediaStart(c, m)
    \/ \E c \in Conns : RecvXoff(c)
    \/ \E c \in Conns : RecvXon(c)
    \/ \E c \in Conns : RecvInput(c, Msg("MEDIA_END", Absent, Absent, Absent, 0, Absent))
    \/ \E c \in Conns : RecvExit(c)
    \/ Flush

ServerSpec == Init /\ [][ServerNext]_vars

\* one connection on a transport with any handlers registered: none, one,
\* or two of which the first, the second or both raise
HandlerLists ==
    {<<>>,
     <<Handler("h1", FALSE)>>,
     <<Handler("h1", TRUE), Handler("h2", FALSE)>>,
     <<Handler("h1", FALSE), Handler("h2", TRUE)>>,
     <<Handler("h1", TRUE), Handler("h2", TRUE)>>}

HandlerInit ==
    /\ InitTransport /\ probe = NoProbe
    /\ \E s \in HandlerLists, e \in HandlerLists :
          event_handlers = [on_call_start |-> s, on_call_end |-> e]

HandlerNext ==
    \/ Connect("A")
    \/ NetClose("A")
    \/ \E m \in PacerMsgs : RecvMediaStart("A", m)
    \/ RecvValue("A")
    \/ RecvExit("A")

HandlerSpec == HandlerInit /\ [][HandlerNext]_vars

\* the Codec Transcoder alone: one sample, 16-bit PCM or one wire byte,
\* encoded and decoded in turn
TranscoderCodecs == {"ulaw", "alaw"}
PcmSamples ==
    {-32768, -20000, -1000, -132, -9, -8, -4, -1, 0, 1, 4, 8, 9, 100, 132,
     988, 1000, 1008, 20000, 32767}
WireBytes == 0..255

CodecInit ==
    /\ InitTransport /\ event_handlers = BotHandlers
    /\ \E c \in TranscoderCodecs :
          \/ \E x \in PcmSamples :
                probe = [codec |-> c, start |-> "pcm", at |-> "pcm",
                         vals |-> <<x>>]
          \/ \E y \in WireBytes :
                probe = [codec |-> c, start |-> "wire", at |-> "wire",
                         vals |-> <<y>>]

CodecNext == EncodeProbe \/ DecodeProbe

CodecSpec == CodecInit /\ [][CodecNext]_vars

(* ------------------------------ properties ---------------------------- *)
\* the sender left the await on websocket.send: its next per-chunk check
AfterWrite == pc = "sending" /\ pc' # "sending"

\* C1: no MEDIA chunk of a frame whose captured generation is older than the
\* current generation is handed to the socket once flush() has incremented
\* the generation (a write that had begun before the flush is no such write:
\* a MEDIA write begins in the step that sets `written`).
C1_NoStaleChunkWritten ==
    (written.event = "MEDIA" /\ written.ok) => written.my_gen = written.gen

\* C2: a send loop that holds an older generation when it comes to its next
\* per-chunk check returns there: it writes no chunk, does not raise, and
\* leaves the flow gate and the generation as they are.
C2_StaleLoopStops ==
    [][(AfterWrite /\ my_generation # flush_generation) =>
          /\ pc' = "idle"
          /\ written' = NoWrite
          /\ sent' = sent
          /\ outcome' \in {"stale", "done", "sendfail"}
          /\ (outcome' = "done" => off + stride >= audio_len)
          /\ (outcome' = "sendfail" => Attached = "closed")
          /\ flow_ready' = flow_ready
          /\ flush_generation' = flush_generation]_vars

\* a frame of more than one chunk was cut short by a flush
C2_Witness ==
    /\ pc = "idle" /\ outcome = "stale"
    /\ sent >= 1 /\ sent * stride < audio_len

\* C3: the generation never decreases; every flush() adds exactly 1 to it,
\* with or without a socket and whether or not the FLUSH_MEDIA write fails;
\* nothing else changes it; a flush() with a socket attached hands exactly
\* one FLUSH_MEDIA to the socket, and disturbs no send in progress.
C3_GenerationCountsFlushes ==
    /\ [](flush_generation = flushCalls)
    /\ [][/\ flush_generation' >= flush_generation
          /\ (flushCalls' = flushCalls => flush_generation' = flush_generation)
          /\ (flushCalls' # flushCalls =>
                /\ flush_generation' = flush_generation + 1
                /\ (websocket # "none" =>
                      /\ written'.event = "FLUSH_MEDIA"
                      /\ written'.ok = (Attached = "open"))
                /\ (websocket = "none" => written' = NoWrite)
                /\ <<pc, off, outcome, sent, flow_ready>>' =
                   <<pc, off, outcome, sent, flow_ready>>)
          /\ ((flushCalls' = flushCalls /\ written' # written) =>
                written'.event # "FLUSH_MEDIA")]_vars

\* flushes without a socket and with a socket whose write fails
C3_Witness ==
    /\ flushCalls = 2 /\ flush_generation = 2
    /\ written.event = "FLUSH_MEDIA" /\ ~written.ok

\* C4: a call that starts after a flush captures the new generation; a call
\* that entered its chunk loop ends as done, stale, timeout or sendfail,
\* stale only if a flush came after it started, and done only with every
\* chunk of its frame written; a flush ends neither the connection nor the
\* receive loop.
C4_MismatchCancelsOneFrame ==
    /\ [](/\ outcome = "stale" => flush_generation > my_generation
          /\ (pc = "idle" /\ outcome \notin {"none", "nosocket", "raised"}) =>
                /\ outcome \in {"done", "stale", "timeout", "sendfail"}
                /\ (outcome = "done" => sent * stride >= audio_len))
    /\ [][/\ (calls' # calls /\ websocket # "none") =>
                my_generation' = flush_generation
          /\ (flushCalls' # flushCalls) =>
                <<conn, websocket, call_id>>' = <<conn, websocket, call_id>>]_vars

\* after a flush a further frame of two chunks went out whole
C4_Witness ==
    /\ flush_generation >= 1 /\ my_generation = flush_generation
    /\ pc = "idle" /\ outcome = "done" /\ sent = 2
    /\ conn["A"] = "loop"

\* C5: every send_audio call comes to an end; one that meets a closed gate
\* that is never released ends by the timeout, only once the 5 s are over,
\* without raising and without writing the chunks that were left; the
\* coroutine is idle again, so the next call is taken.
C5_SendAudioReturns ==
    /\ (pc # "idle") ~> (pc = "idle")
    /\ [](outcome = "timeout" => (pc = "idle" /\ sent * stride < audio_len))
    /\ [][(outcome' = "timeout" /\ outcome # "timeout") =>
             /\ pc = "flowwait" /\ waitLeft = 0
             /\ written' = NoWrite /\ sent' = sent]_vars

\* the gate is still closed when the call has timed out
C5_Witness == outcome = "timeout" /\ pc = "idle" /\ ~flow_ready /\ ~xonSince

\* C6: a call made while the gate is closed (XOFF received) writes no chunk
\* before an XON arrives; it leaves the wait either because an XON arrived
\* or by the timeout once the 5 s are over, and in neither case raises.
C6_NoChunkBeforeXon ==
    /\ []((~ready0 /\ ~xonSince) => (sent = 0 /\ written.event # "MEDIA"))
    /\ [][(pc = "flowwait" /\ pc' # "flowwait") =>
             /\ outcome' \in {"running", "timeout", "sendfail"}
             /\ (outcome' = "timeout" => (waitLeft = 0 /\ pc' = "idle"))
             /\ (outcome' # "timeout" => (woken /\ xonSince))]_vars

\* a call that started under XOFF sent its whole frame after the XON
C6_Witness ==
    /\ ~ready0 /\ xonSince
    /\ pc = "idle" /\ outcome = "done" /\ sent = 2

\* C7: every MEDIA chunk handed to the socket has exactly chunk_size bytes,
\* the slice of the frame plus zero padding; a completed frame of encoded
\* length L has produced ceil(L / chunk size) chunks (the chunk size its
\* loop was built with).
C7_ChunksFullSize ==
    /\ written.event = "MEDIA" =>
          /\ written.len + written.pad = chunk_size
          /\ written.len = Min(chunk_size, audio_len - written.off)
          /\ written.len >= 1 /\ written.pad >= 0
    /\ (pc = "idle" /\ outcome = "done") =>
          /\ sent * stride >= audio_len
          /\ (sent > 0 => (sent - 1) * stride < audio_len)

\* the short last chunk of a frame of two chunks, padded
C7_Witness ==
    /\ written.event = "MEDIA" /\ written.ok
    /\ written.off > 0 /\ written.pad > 0

\* C8: once set_media_params has run, chunk_size is twice the whole number
\* of samples in ptime_ms at the sample rate; 320 at 8000 Hz and 20 ms.
C8_ChunkSizeFromRate ==
    in_call_id # NoneStr =>
       /\ chunk_size % 2 = 0
       /\ chunk_size * 1000 <= 2 * sample_rate * PtimeMs
       /\ 2 * sample_rate * PtimeMs < (chunk_size + 2) * 1000
       /\ ((sample_rate = 8000 /\ PtimeMs = 20) => chunk_size = 320)

C8_Witness == codec = "ulaw" /\ sample_rate = 8000 /\ chunk_size = 320

\* C9: the chunks of a frame go out in order and without gaps (the k-th
\* write of a call carries the slice at k-1 chunk sizes), and a frame is
\* begun only when the frame before it has returned.
C9_ChunksInOrder ==
    /\ [](written.event = "MEDIA" =>
            /\ written.frame = calls
            /\ written.off = stride * (IF written.ok THEN sent - 1 ELSE sent))
    /\ [][/\ calls' >= calls
          /\ (calls' # calls => (pc = "idle" /\ calls' = calls + 1))
          /\ (calls' = calls => sent' \in {sent, sent + 1})
          /\ ((calls' = calls /\ sent' = sent + 1) =>
                /\ written'.event = "MEDIA" /\ written'.ok
                /\ written'.off = sent * stride)]_vars

\* the second chunk of the second frame
C9_Witness ==
    /\ written.event = "MEDIA" /\ written.ok
    /\ written.frame = 2 /\ written.off > 0

\* C10: on a connection that the switch opens with its one MEDIA_START,
\* the signals emitted upward up to the closure of the socket are the
\* CallStart, then AudioChunk / Dtmf only, then exactly one Hangup
\* immediately followed by exactly one End, and nothing after the End.
CallStarts == {i \in 1..Len(emitted) : emitted[i].type = "CallStart"}

C10_EmitOrder ==
    (conn["A"] = "closed" /\ CallStarts = {1}) =>
        LET n == Len(emitted)
        IN  /\ n >= 3
            /\ emitted[n - 1].type = "Hangup"
            /\ emitted[n].type = "End"
            /\ \A i \in 2..(n - 2) : emitted[i].type \in {"Audio", "Dtmf"}

\* C11: a MEDIA_END event makes the Inbound Session emit Hangup{call_id} and
\* then End and leaves it not running; a MEDIA event (JSON or binary
\* fallback, here with a well-formed payload) taken after that, with the
\* session still ended, is dropped: it emits nothing upward and does not end
\* the receive loop.
C11_MediaAfterEndDropped ==
    [][/\ (recv'.msg.event = "MEDIA_END" /\ nEvents' # nEvents) =>
             /\ emitted' = emitted \o <<HangupFrame(in_call_id), EndFrame>>
             /\ ~running'
       /\ (/\ ~running /\ CallStarts = {1}
           /\ emitted[Len(emitted)].type = "End"
           /\ recv'.msg.event = "MEDIA" /\ recv'.msg.media = "b64"
           /\ recv'.kind \in {"json", "bytes"} /\ nEvents' # nEvents) =>
             /\ emitted' = emitted
             /\ conn' = conn]_vars

\* C12: for a MEDIA_START{codec, channel} event exactly one frame goes
\* upward, CallStart{call_id = channel, codec = codec, sample_rate = the
\* table's rate of that codec}; a missing channel gives call_id "unknown", a
\* missing codec gives "slin16" at 16000, a codec the table does not list
\* gives 8000, and the receive loop goes on.
C12_CallStartFields ==
    /\ [](recv.msg.event = "MEDIA_START" =>
            LET f == emitted[Len(emitted)]
                m == recv.msg
            IN  /\ f.type = "CallStart"
                /\ f.call_id = (IF m.channel = Absent THEN "unknown"
                                ELSE m.channel)
                /\ f.codec = (IF m.codec = Absent THEN "slin16" ELSE m.codec)
                /\ f.sample_rate =
                      (CASE f.codec \in {"ulaw", "alaw", "slin"} -> 8000
                         [] f.codec = "slin16" -> 16000
                         [] f.codec = "slin12" -> 12000
                         [] OTHER -> 8000)
                /\ conn[recv.conn] = "loop")
    /\ [][(recv'.msg.event = "MEDIA_START" /\ nEvents' # nEvents) =>
             Len(emitted') = Len(emitted) + 1]_vars

\* the scenario MEDIA_START{codec "ulaw", channel "C1"}
C12_Witness ==
    /\ recv.msg.event = "MEDIA_START"
    /\ recv.msg.codec = "ulaw" /\ recv.msg.channel = "C1"
    /\ emitted[Len(emitted)] = CallStartFrame("C1", "ulaw", 8000)

\* a MEDIA_START without channel and with a codec the table does not list
C12_WitnessDefaults ==
    /\ recv.msg.event = "MEDIA_START"
    /\ recv.msg.codec = "g722" /\ recv.msg.channel = Absent
    /\ emitted[Len(emitted)] = CallStartFrame("unknown", "g722", 8000)

\* C13: in every reachable state, after any MEDIA_START events with any
\* codec field, the session's codec is one of ulaw, alaw, slin, slin16, its
\* sample_rate is the table's rate of that codec (ulaw/alaw/slin 8000,
\* slin16 16000), and the Inbound Session and the Outbound Pacer hold the
\* same codec and sample_rate.
C13_CodecRateConsistent ==
    /\ in_codec \in {"ulaw", "alaw", "slin", "slin16"}
    /\ in_sample_rate = (IF in_codec = "slin16" THEN 16000 ELSE 8000)
    /\ codec = in_codec
    /\ sample_rate = in_sample_rate

\* the on_call_end notifications fired so far
CallEnds == {i \in 1..Len(notified) : notified[i].kind = "on_call_end"}

\* the receive loop of connection "A" has ended, the finally block has run
Exited == conn["A"] \in {"closed", "error"}

\* C14 as claimed: on every exit of the receive loop, with or without a
\* preceding MEDIA_START or MEDIA_END, on_call_end(call_id) has fired exactly
\* once, and only after it Hangup and then End went upward.
C14_EndNoticeOnEveryExit ==
    Exited =>
        LET n == Len(emitted)
        IN  /\ Cardinality(CallEnds) = 1
            /\ \A i \in CallEnds : notified[i].at = n - 2
            /\ emitted[n - 1].type = "Hangup" /\ emitted[n].type = "End"

\* C14 as amended: on every exit of the receive loop Hangup{call_id} and
\* then End go upward last; on_call_end(call_id) has fired exactly once,
\* right before that Hangup, when the connection's call_id (the channel of
\* its last MEDIA_START, "unknown" if that had none) is a non-empty string,
\* and has not fired at all when no MEDIA_START came or the channel was
\* empty; it never fires while the loop runs.
C14_EndNoticeIfCallId ==
    /\ Exited =>
          LET n == Len(emitted)
              k == Len(notified)
          IN  /\ n >= 2
              /\ emitted[n - 1] = HangupFrame(call_id["A"])
              /\ emitted[n].type = "End"
              /\ IF call_id["A"] \notin {NoneStr, ""}
                 THEN /\ CallEnds = {k}
                      /\ notified[k].call_id = call_id["A"]
                      /\ notified[k].at = n - 2
                 ELSE CallEnds = {}
    /\ ~Exited => CallEnds = {}

\* the loop ended by an exception after MEDIA_START{channel "C1"}
C14_Witness ==
    /\ conn["A"] = "error" /\ call_id["A"] = "C1"
    /\ CallEnds = {Len(notified)}
    /\ notified[Len(notified)].call_id = "C1"

\* the connections other than c have all come to their end
OthersEnded(c) == \A d \in Conns \ {c} : conn[d] \in {"closed", "error"}

\* C15: at the start of every connection the pacer that serves it is a new
\* one, whatever happened on the connections that ended before: generation
\* at its initial value, flow gate ready, no send deadline pending, no
\* codec settings of an earlier connection.
C15_FreshPacerPerConnection ==
    [][\A c \in Conns :
          (conn[c] = "none" /\ conn'[c] = "loop" /\ OthersEnded(c)) =>
              /\ flush_generation' = 0
              /\ flow_ready'
              /\ paceLeft' = 0
              /\ chunk_size' = 0
              /\ codec' = "slin16" /\ sample_rate' = 16000
              /\ ~resampler']_vars

\* connections c and d are both in their receive loops on open sockets
BothOpen(c, d) ==
    /\ c # d
    /\ conn[c] = "loop" /\ sock[c] = "open"
    /\ conn[d] = "loop" /\ sock[d] = "open"

\* C16: connections are isolated: a connection in its receive loop is served
\* by a pacer that writes to that connection's own socket, and with two
\* connections open, a frame taken off one of them (XOFF, XON, MEDIA_START,
\* MEDIA_END), its failure or its closure changes neither the flow gate, the
\* socket handle, the codec and rate nor the session state that serve the
\* other.
C16_ConnectionsIsolated ==
    /\ [](\A c \in Conns : conn[c] = "loop" => websocket = c)
    /\ [][\A c, d \in Conns :
            (/\ BothOpen(c, d)
             /\ \/ recv'.conn = c
                \/ sock'[c] # sock[c]
                \/ conn'[c] # conn[c]) =>
                /\ flow_ready' = flow_ready
                /\ websocket' = websocket
                /\ <<codec, sample_rate, chunk_size>>' =
                   <<codec, sample_rate, chunk_size>>
                /\ inVars' = inVars
                /\ conn'[d] = conn[d] /\ call_id'[d] = call_id[d]]_vars

\* C17: an XOFF or XON wire event changes only the pacer's flow gate (closed
\* by XOFF, open by XON): nothing goes upward, no notification fires, the
\* session's codec, sample_rate, call_id and running flag, the pacer's
\* codec settings and socket, the generation and the receive loop stay as
\* they are.
C17_FlowEventsOnlyMoveGate ==
    [][recv'.msg.event \in {"XOFF", "XON"} =>
          /\ flow_ready' = (recv'.msg.event = "XON")
          /\ emitted' = emitted /\ notified' = notified
          /\ <<in_codec, in_sample_rate, in_call_id, in_resampler, running>>' =
             <<in_codec, in_sample_rate, in_call_id, in_resampler, running>>
          /\ <<codec, sample_rate, resampler, chunk_size, websocket>>' =
             <<codec, sample_rate, resampler, chunk_size, websocket>>
          /\ flush_generation' = flush_generation
          /\ conn' = conn /\ call_id' = call_id /\ sock' = sock
          /\ written' = NoWrite]_vars

\* an XOFF taken in mid-frame of a call in progress, after a flush
C17_Witness ==
    /\ recv.msg.event = "XOFF" /\ ~flow_ready
    /\ running /\ in_call_id = "C1"
    /\ flush_generation >= 1 /\ pc = "pace"

\* C18: a frame that is not valid JSON (a binary frame or an unparsable text
\* frame) is no error: it is handled as a MEDIA event whose payload is the
\* frame's raw bytes (one AudioChunk upward if it has any bytes, else
\* nothing), and the receive loop goes on.
C18_BinaryFallback ==
    [][(recv'.kind \in {"text", "bytes", "raw"} /\ nEvents' # nEvents) =>
          /\ conn' = conn
          /\ notified' = notified
          /\ emitted' = emitted \o
                (IF recv'.msg.mediaLen = 0 THEN <<>>
                 ELSE <<[emitted'[Len(emitted')] EXCEPT !.type = "Audio"]>>)]_vars

\* C19: no content of a valid-JSON frame ends the connection: the receive
\* loop is left only when the socket has closed; a frame with an unknown
\* event type or no event field is ignored and leaves the session state and
\* the upward stream as they are.
C19_NoFrameEndsConnection ==
    [][/\ \A c \in Conns :
            (conn[c] = "loop" /\ conn'[c] # "loop"
             /\ recv'.kind \in {"none", "json", "value"}) => sock[c] = "closed"
       /\ (recv'.kind = "json" /\ recv'.msg.event \in {"PING", Absent}) =>
             /\ emitted' = emitted /\ notified' = notified
             /\ inVars' = inVars /\ conn' = conn]_vars

\* C20: end() never raises and leaves the pacer as it is; a call after the
\* first has no effect beyond that of the first: it hands nothing more to
\* the socket.
C20_EndIdempotent ==
    [][endCalls' # endCalls =>
          /\ <<pacerVars, pc, off, sent, outcome>>' =
             <<pacerVars, pc, off, sent, outcome>>
          /\ (endCalls >= 1 => written' = NoWrite)]_vars

\* C21 as stated: encoding a 16-bit PCM sample to ulaw or alaw and decoding
\* it again gives back exactly the sample.
C21_RoundTripExact ==
    (probe.start = "pcm" /\ Len(probe.vals) >= 3) =>
        probe.vals[3] = probe.vals[1]

\* C21: decoding a ulaw or alaw wire byte and encoding it again gives back
\* the byte, except the ulaw byte 0x7F, which comes back as 0xFF; encoding
\* a PCM sample and decoding it gives a sample that a second encoding and
\* decoding leaves as it is.
C21_RoundTripOnLevels ==
    /\ (probe.start = "wire" /\ Len(probe.vals) >= 3) =>
          \/ probe.vals[3] = probe.vals[1]
          \/ /\ probe.codec = "ulaw"
             /\ probe.vals[1] = 127 /\ probe.vals[3] = 255
    /\ (probe.start = "pcm" /\ Len(probe.vals) >= 5) =>
          probe.vals[5] = probe.vals[3]

C21_Witness ==
    /\ probe.codec = "ulaw" /\ probe.start = "pcm"
    /\ probe.vals = <<1000, 206, 988, 206, 988>>

\* C22: in an Active session a MEDIA event with a base64 payload pushes
\* exactly one audio frame upward, at the pipeline rate and with one channel,
\* of the length of the decoded and resampled payload (ulaw and alaw at
\* 8000 Hz: n bytes give 4n); a MEDIA event with an empty or missing payload
\* pushes nothing and changes no state.
C22_MediaToOneChunk ==
    [][(recv'.kind = "json" /\ recv'.msg.event = "MEDIA" /\ running) =>
          LET n   == recv'.msg.mediaLen
              law == in_codec \in {"ulaw", "alaw"}
              pcm == IF law THEN 2 * n ELSE n
          IN  CASE recv'.msg.media = "b64" ->
                      /\ Len(emitted') = Len(emitted) + 1
                      /\ SubSeq(emitted', 1, Len(emitted)) = emitted
                      /\ emitted'[Len(emitted')] =
                            [type |-> "Audio", call_id |-> NoneStr,
                             codec |-> "", sample_rate |-> 16000,
                             num_channels |-> 1, digit |-> "",
                             len |-> (((pcm \div 2) * 16000)
                                        \div in_sample_rate) * 2]
                      /\ law => emitted'[Len(emitted')].len = 4 * n
                      /\ <<inVars, conn, call_id, notified>>' =
                         <<inVars, conn, call_id, notified>>
                [] recv'.msg.media \in {Absent, ""} ->
                      <<emitted, inVars, conn, call_id, notified, pacerVars,
                        pc, sent>>' =
                      <<emitted, inVars, conn, call_id, notified, pacerVars,
                        pc, sent>>
                [] OTHER -> TRUE]_vars

C22_Witness ==
    /\ recv.kind = "json" /\ recv.msg.event = "MEDIA"
    /\ recv.msg.media = "b64" /\ recv.msg.mediaLen = 160
    /\ in_codec = "ulaw" /\ running
    /\ emitted[Len(emitted)].type = "Audio"
    /\ emitted[Len(emitted)].len = 640

\* C23: no MEDIA chunk is written while the flow gate is not ready: every
\* chunk write happens when the last flow-control event received was XON or
\* none had been received, also when XOFF arrives during the pacing sleep.
C23_NoChunkWhilePaused ==
    written.event = "MEDIA" => (written.ready /\ lastFlow["A"] # "XOFF")

\* C24: in every state of a connection whose socket the pacer holds, the
\* flow gate is ready exactly when the last flow-control event received on
\* that connection is XON or none has been received on it.
C24_GateIsLastFlowEvent ==
    \A c \in Conns :
        (websocket = c /\ conn[c] = "loop") =>
            (flow_ready <=> lastFlow[c] # "XOFF")

\* C25: in both directions a resampler exists exactly when the negotiated
\* rate differs from the pipeline rate, and while a call lasts no event, a
\* further MEDIA_START included, constructs a new resampler in place of the
\* call's one.
C25_ResamplerBuiltOnce ==
    [][/\ in_resampler' <=> (in_sample_rate' # 16000)
       /\ resampler' <=> (sample_rate' # 16000)
       /\ (running /\ in_resampler) => in_built' = in_built
       /\ (running /\ resampler) => out_built' = out_built]_vars

\* C26: the Inbound Session only moves Idle -> Active -> Ended: running
\* becomes true on a MEDIA_START and false on a MEDIA_END, and a session
\* that has been started and has ended is not made Active by a later event.
C26_NoReactivation ==
    [][/\ (~running /\ running') => recv'.msg.event = "MEDIA_START"
       /\ (running /\ ~running') => recv'.msg.event = "MEDIA_END"
       /\ (~running /\ in_call_id # NoneStr) => ~running']_vars

\* C27: after a CancelFrame and after the connection's receive loop has
\* ended on a closed socket the Inbound Session is Ended (running is false), from Idle and from
\* Active and without a MEDIA_END; the CancelFrame itself is pushed on.
C27_EndedAfterCancelOrExit ==
    [][/\ (Len(emitted') > Len(emitted)
           /\ emitted'[Len(emitted')].type = "Cancel") => ~running'
       /\ (recv'.kind = "none" /\ nEvents' # nEvents) =>
             emitted' = Append(emitted, [emitted'[Len(emitted')]
                                         EXCEPT !.type = "Cancel"])
       /\ (conn["A"] = "loop" /\ conn'["A"] = "closed") => ~running']_vars

\* C28 as stated: every DTMF wire event pushes exactly one Dtmf upward.
C28_EveryDtmfForwarded ==
    [][(recv'.kind = "json" /\ recv'.msg.event = "DTMF") =>
          /\ Len(emitted') = Len(emitted) + 1
          /\ emitted'[Len(emitted')].type = "Dtmf"]_vars

\* C28: a DTMF wire event with a non-empty digit pushes exactly one Dtmf
\* upward, with that digit and the session's current call_id; one with a
\* missing or empty digit pushes nothing; neither changes any state of the
\* session; frames are only ever added at the end of the upward stream, each
\* in the step of the wire event (or loop exit) that causes it.
C28_DtmfWithDigitForwarded ==
    [][/\ (recv'.kind = "json" /\ recv'.msg.event = "DTMF") =>
             /\ emitted' = emitted \o
                   (IF recv'.msg.digit \in {Absent, ""}
                    THEN <<>>
                    ELSE <<[type |-> "Dtmf", call_id |-> in_call_id,
                            codec |-> "", sample_rate |-> 0,
                            num_channels |-> 0, len |-> 0,
                            digit |-> recv'.msg.digit]>>)
             /\ <<inVars, conn, call_id, notified, pacerVars>>' =
                <<inVars, conn, call_id, notified, pacerVars>>
       /\ Len(emitted') >= Len(emitted)
       /\ SubSeq(emitted', 1, Len(emitted)) = emitted
       /\ \A i \in (Len(emitted) + 1)..Len(emitted') :
             CASE emitted'[i].type = "Dtmf" -> recv'.msg.event = "DTMF"
               [] emitted'[i].type = "CallStart" ->
                     recv'.msg.event = "MEDIA_START"
               [] emitted'[i].type \in {"Hangup", "End"} ->
                     recv'.msg.event = "MEDIA_END" \/ conn' # conn
               [] OTHER -> TRUE]_vars

C28_Witness ==
    /\ recv.kind = "json" /\ recv.msg.event = "DTMF" /\ recv.msg.digit = "5"
    /\ in_call_id = "C1"
    /\ Len(emitted) = 2
    /\ emitted[1].type = "CallStart"
    /\ emitted[2].type = "Dtmf" /\ emitted[2].digit = "5"
    /\ emitted[2].call_id = "C1"

\* C29: on each MEDIA_START both the Inbound Session and the Outbound Pacer
\* are configured with the negotiated codec and rate before on_call_start
\* fires, and on_call_start fires before the one CallStart goes upward; every
\* chunk written has the size of the pacer's current configuration, never
\* that of the unconfigured pacer.
C29_ConfigureNotifyEmit ==
    [][/\ (recv'.kind = "json" /\ recv'.msg.event = "MEDIA_START") =>
             LET k  == Len(notified')
                 n  == Len(emitted')
                 cd == IF recv'.msg.codec = Absent THEN "slin16"
                       ELSE recv'.msg.codec
                 r  == emitted'[n].sample_rate
             IN  /\ k = Len(notified) + 1 /\ n = Len(emitted) + 1
                 /\ SubSeq(notified', 1, k - 1) = notified
                 /\ SubSeq(emitted', 1, n - 1) = emitted
                 /\ notified'[k].kind = "on_call_start"
                 /\ notified'[k].call_id = emitted'[n].call_id
                 /\ notified'[k].at = n - 1
                 /\ notified'[k].cfg = <<cd, r, cd, r, ((r * 20) \div 1000) * 2>>
                 /\ emitted'[n].type = "CallStart"
                 /\ emitted'[n].codec = cd
                 /\ <<in_codec, in_sample_rate, codec, sample_rate>>' =
                    <<cd, r, cd, r>>
       /\ written'.event = "MEDIA" =>
             /\ notified' # <<>>
             /\ written'.len + written'.pad = chunk_size'
             /\ chunk_size' > 0
             /\ chunk_size' = notified'[Len(notified')].cfg[5]]_vars

\* a chunk of 320 bytes goes out after MEDIA_START{ulaw} has configured the
\* pacer, fired on_call_start and pushed the CallStart
C29_Witness ==
    /\ written.event = "MEDIA" /\ written.ok
    /\ written.len + written.pad = 320
    /\ notified # <<>>
    /\ notified[Len(notified)].kind = "on_call_start"
    /\ notified[Len(notified)].cfg = <<"ulaw", 8000, "ulaw", 8000, 320>>
    /\ emitted[Len(emitted)].type = "CallStart"

\* C30: when the write of a MEDIA chunk fails, send_audio returns at once:
\* it writes nothing more of that frame, and generation, flow gate and send
\* deadline stay as they were; whatever a later send_audio writes is a chunk
\* of its own frame.
C30_SendFailureAborts ==
    [][/\ (outcome' = "sendfail" /\ (pc # "idle" \/ calls' # calls)) =>
             /\ pc' = "idle"
             /\ <<flush_generation, flow_ready, paceLeft>>' =
                <<flush_generation, flow_ready, paceLeft>>
             /\ (pc = "sending" => written' = NoWrite /\ off' = off)
             /\ (written'.event = "MEDIA" => ~written'.ok)
       /\ (outcome = "sendfail" /\ calls' = calls) =>
             /\ written'.event # "MEDIA"
             /\ pc' = "idle" /\ off' = off /\ sent' = sent
             /\ outcome' = "sendfail"
       /\ written'.event = "MEDIA" => written'.frame = calls']_vars

\* the first chunk of a frame of two failed in the write
C30_Witness ==
    /\ outcome = "sendfail" /\ pc = "idle"
    /\ sent = 1 /\ off = 0 /\ off + stride < audio_len
    /\ Attached = "closed"

\* C31: a chunk write that succeeded sets the send deadline to ptime_ms
\* from then, and no chunk is written before the deadline: when a chunk is
\* written, within a frame or as the first of a later frame, at least
\* ptime_ms have passed since the last successful write.
C31_ChunksPtimeApart ==
    [][/\ (pc = "sending" /\ off' # off) => paceLeft' = PtimeMs
       /\ written'.event = "MEDIA" =>
             /\ paceLeft = 0 /\ paceLeft' = 0
             /\ sinceSend >= PtimeMs]_vars

\* the second chunk of a frame goes out once the pacing sleep has ended
C31_Witness ==
    /\ written.event = "MEDIA" /\ written.ok
    /\ sent = 2 /\ written.off > 0
    /\ paceLeft = 0 /\ sinceSend = PtimeMs

\* C32: every MEDIA chunk carries ptime_ms of audio in the negotiated codec
\* at the negotiated rate: sample_rate * ptime_ms / 1000 samples, of 2 bytes
\* each for slin and slin16 and of 1 byte each for ulaw and alaw (160 bytes
\* for ulaw at 8000 Hz and 20 ms).
C32_ChunkIsPtimeOfAudio ==
    written.event = "MEDIA" =>
        written.len + written.pad =
            ((sample_rate * PtimeMs) \div 1000) *
                (IF codec \in {"ulaw", "alaw"} THEN 1 ELSE 2)

\* C33: send_audio never raises: a call made once the socket is attached
\* and before any MEDIA_START (chunk size still 0) returns normally.
C33_SendAudioNeverRaises ==
    outcome # "raised"

\* C34: once the pacer has sent MEDIA_END on the socket of a call, it
\* writes no further MEDIA chunk to that socket, neither of a send_audio
\* call already in progress nor of a later one: in particular the step that
\* follows the MEDIA_END is not the write of a chunk.
C34_NoChunkAfterMediaEnd ==
    [][(written.event = "MEDIA_END" /\ written.ok) =>
          ~(written'.event = "MEDIA" /\ written'.ok)]_vars

\* C35: call notifications are paired: once the socket has closed and the
\* receive loop has ended, each on_call_start(c) with a non-empty call id is
\* followed by exactly one on_call_end(c), and each on_call_end(c) follows
\* an on_call_start(c), also with several MEDIA_START on the connection.
C35_NotificationsPaired ==
    conn["A"] = "closed" =>
        /\ \A i \in 1..Len(notified) :
              (notified[i].kind = "on_call_start" /\ notified[i].call_id # "")
              => Cardinality({j \in CallEnds :
                                /\ j > i
                                /\ notified[j].call_id = notified[i].call_id})
                 = 1
        /\ \A j \in CallEnds :
              \E i \in 1..(j - 1) :
                  /\ notified[i].kind = "on_call_start"
                  /\ notified[i].call_id = notified[j].call_id

\* C36: the padding of a final partial chunk is silence in the wire codec:
\* the padding byte decodes to a PCM sample of amplitude zero.
C36_PaddingIsSilence ==
    (probe.start = "wire" /\ probe.vals[1] = PadByte /\ Len(probe.vals) >= 2)
        => probe.vals[2] = 0

\* C37: the handlers registered for an event are called in the order of
\* their registration, all of them also when one raises; after on_call_start
\* the CallStart goes upward and the receive loop goes on, after on_call_end
\* Hangup and End go upward.
C37_HandlersAllRun ==
    [][Len(notified') > Len(notified) =>
          LET k  == Len(notified')
              nt == notified'[k]
              n  == Len(emitted')
          IN  /\ k = Len(notified) + 1
              /\ Len(nt.ran) = Len(event_handlers[nt.kind])
              /\ \A i \in 1..Len(nt.ran) :
                    nt.ran[i] = event_handlers[nt.kind][i]
              /\ nt.kind = "on_call_start" =>
                    /\ n = Len(emitted) + 1
                    /\ emitted'[n].type = "CallStart"
                    /\ conn'["A"] = "loop"
              /\ nt.kind = "on_call_end" =>
                    /\ n = Len(emitted) + 2
                    /\ emitted'[n - 1].type = "Hangup"
                    /\ emitted'[n].type = "End"]_vars

\* the first of two on_call_start handlers raised, the second was called,
\* the CallStart went upward and the loop goes on
C37_Witness ==
    /\ Len(event_handlers["on_call_start"]) = 2
    /\ event_handlers["on_call_start"][1].raises
    /\ notified # <<>>
    /\ notified[Len(notified)].kind = "on_call_start"
    /\ Len(notified[Len(notified)].ran) = 2
    /\ notified[Len(notified)].ran[2].id = "h2"
    /\ emitted[Len(emitted)].type = "CallStart"
    /\ conn["A"] = "loop"

====
